---- MODULE Spec2Model ----
(***************************************************************************)
(* A model of s4cmb's time_ordered_data package:                           *)
(*   tod.py        pointing (pointing model, UT1-UTC lookup, conversion    *)
(*                 pipeline) and Azel2Radec (the slalib based converter);  *)
(*   input_sky.py  HealpixFitsMap (loading a sky map, leakage zeroing).    *)
(*                                                                         *)
(* Numbers.  The code computes in floating point.  The model computes in   *)
(* exact extended rationals <<n, d>>: d > 0 is the fraction n/d in lowest  *)
(* terms, <<1,0>> and <<-1,0>> are +inf and -inf, <<0,0>> is NaN, with the *)
(* IEEE rules for them (x/0, 0/0, inf-inf, 0*inf).  Angles are atoms whose *)
(* sine and cosine are rational (0 and angles of the 3-4-5 triangle),      *)
(* so sin, cos, tan and their double-angle values are exact.  A quantity   *)
(* in radians is [ang |-> a, pi |-> q]: the angle a plus q times pi.       *)
(***************************************************************************)
EXTENDS Integers, Sequences, FiniteSets, TLC

(***************************************************************************)
(* Bounds of the explored inputs.                                          *)
(***************************************************************************)
MaxSamples == 2
MaxParams == 1
MaxTable == 3
MaxMjd == 2
MaxCalls == 3
MaxOrder == 1
MaxOps == 3

(***************************************************************************)
(* Extended rational arithmetic.                                           *)
(***************************************************************************)
Abs(x) == IF x < 0 THEN -x ELSE x
Sgn(x) == IF x < 0 THEN -1 ELSE IF x > 0 THEN 1 ELSE 0

RECURSIVE GCD(_, _)
GCD(a, b) == IF b = 0 THEN a ELSE GCD(b, a % b)

Norm(n, d) ==
    IF d = 0 THEN <<Sgn(n), 0>>
    ELSE IF n = 0 THEN <<0, 1>>
    ELSE IF d = 1 THEN <<n, 1>>
    ELSE LET g == GCD(Abs(n), Abs(d))
         IN  <<Sgn(d) * (n \div g), Abs(d) \div g>>

R(n) == <<n, 1>>
NaN == <<0, 0>>
IsFinite(a) == a[2] # 0

RNeg(a) == <<-a[1], a[2]>>

RAdd(a, b) ==
    IF IsFinite(a) /\ IsFinite(b)
    THEN IF a[1] = 0 THEN b
         ELSE IF b[1] = 0 THEN a
         ELSE Norm(a[1] * b[2] + b[1] * a[2], a[2] * b[2])
    ELSE IF ~IsFinite(a) /\ ~IsFinite(b)
         THEN (IF a[1] = b[1] THEN a ELSE NaN)
         ELSE IF ~IsFinite(a) THEN a ELSE b

RSub(a, b) == RAdd(a, RNeg(b))

RMul(a, b) ==
    IF IsFinite(a) /\ IsFinite(b)
    THEN Norm(a[1] * b[1], a[2] * b[2])
    ELSE <<Sgn(a[1]) * Sgn(b[1]), 0>>

RDiv(a, b) ==
    IF IsFinite(b)
    THEN IF b[1] = 0
         THEN (IF IsFinite(a) THEN <<Sgn(a[1]), 0>> ELSE a)
         ELSE RMul(a, <<Sgn(b[1]) * b[2], Abs(b[1])>>)
    ELSE IF b[1] = 0 \/ ~IsFinite(a) THEN NaN ELSE R(0)

(***************************************************************************)
(* numpy's sin, cos, tan on the angle atoms.                               *)
(***************************************************************************)
Angles == {"zero", "a345", "a435", "m345", "m435"}

sin(a) ==
    CASE a = "zero" -> R(0)
      [] a = "a345" -> <<3, 5>>
      [] a = "a435" -> <<4, 5>>
      [] a = "m345" -> <<-3, 5>>
      [] a = "m435" -> <<-4, 5>>

cos(a) ==
    CASE a = "zero" -> R(1)
      [] a = "a345" -> <<4, 5>>
      [] a = "a435" -> <<3, 5>>
      [] a = "m345" -> <<4, 5>>
      [] a = "m435" -> <<3, 5>>

tan(a) == RDiv(sin(a), cos(a))

\* sin(2 * a), cos(2 * a), sin(4 * a), cos(4 * a)
sin2(a) == RMul(R(2), RMul(sin(a), cos(a)))
cos2(a) == RSub(RMul(cos(a), cos(a)), RMul(sin(a), sin(a)))
sin4(a) == RMul(R(2), RMul(sin2(a), cos2(a)))
cos4(a) == RSub(RMul(cos2(a), cos2(a)), RMul(sin2(a), sin2(a)))

\* An encoder reading: the angle itself, no multiple of pi added.
Enc(a) == [ang |-> a, pi |-> R(0)]
\* x - y for x in radians and y a multiple of pi.
RadSub(x, y) == [ang |-> x.ang, pi |-> RSub(x.pi, y)]

(***************************************************************************)
(* Module constants of tod.py.                                             *)
(***************************************************************************)
sec2deg == <<1, 240>>            \* 360.0 / 86400.0
arcmin2rad == <<1, 10800>>       \* np.pi / (180.0 * 60.), in units of pi

VARIABLES
    pc,             \* position in pointing.__init__ ("error": an exception left it)
    err,            \* the exception raised, "" if none
    az_enc,         \* self.az_enc: sequence of angle atoms
    el_enc,         \* self.el_enc
    time,           \* self.time: sequence of mjd
    value_params,   \* self.value_params: sequence of numbers
    allowed_params, \* self.allowed_params.split(): sequence of names
    lat,            \* self.lat (radians): an angle atom
    az,             \* self.az: sequence of radians, <<>> while not set
    el,             \* self.el
    table,          \* the rows of the file ut1utc_fn: [mjd, ut1utc]
    ut1utc,         \* self.ut1utc in milliseconds, 0 while not set
    converter,      \* the Azel2Radec object, <<>> while there is none
    out,            \* the outputs np.vectorize has collected so far
    ra,             \* self.ra, <<>> while not set
    dec,            \* self.dec
    pa,             \* self.pa
    meanpa,         \* self.meanpa, <<>> while not set
    ncalls,         \* conversion calls made on the converter
    call,           \* the last conversion call: [fn, mjd, x, y], <<>> if none
    ret,            \* what the last conversion call returned
    file,           \* the map file input_filename: [exists, I, Q, U]
    hpmap,          \* the HealpixFitsMap object's attributes
    mpc,            \* "init": in __init__, "ready": constructed, "error"
    op,             \* the last call on the map object or on the file
    nops,           \* calls made on the constructed map object
    nreads,         \* calls of hp.read_map
    printed         \* times "External data already present in memory" was printed

inputs == <<az_enc, el_enc, time, value_params, allowed_params, lat, table>>
results == <<ra, dec, pa, meanpa>>
skymap == <<file, hpmap, mpc, op, nops, nreads, printed>>
tod == <<pc, err, inputs, az, el, ut1utc, converter, out, results,
         ncalls, call, ret>>
vars == <<tod, skymap>>

(***************************************************************************)
(* pointing.get_ut1utc                                                     *)
(***************************************************************************)
\* Mutant of searchsorted: side='right', the entries <= v are skipped.
RECURSIVE searchsorted_right(_, _, _, _)
searchsorted_right(a, v, lo, hi) ==
    IF lo < hi
    THEN LET mid == lo + ((hi - lo) \div 2)
         IN  IF a[mid + 1] <= v
             THEN searchsorted_right(a, v, mid + 1, hi)
             ELSE searchsorted_right(a, v, lo, mid)
    ELSE lo

\* np.searchsorted(a, v), side='left': the binary search for the insertion
\* point in lo..hi, as a 0-based index (a[mid + 1] is numpy's a[mid]).
RECURSIVE searchsorted(_, _, _, _)
searchsorted(a, v, lo, hi) ==
    IF lo < hi
    THEN LET mid == lo + ((hi - lo) \div 2)
         IN  IF a[mid + 1] < v
             THEN searchsorted(a, v, mid + 1, hi)
             ELSE searchsorted(a, v, lo, mid)
    ELSE lo

\* The columns read by np.loadtxt(ut1utc_fn, usecols=(1, 2)).T
umjds(rows) == [i \in 1..Len(rows) |-> rows[i].mjd]
ut1utcs(rows) == [i \in 1..Len(rows) |-> rows[i].ut1utc]

uindex(rows, mjd) == searchsorted(umjds(rows), mjd, 0, Len(rows))

\* ut1utcs[uindex] raises IndexError at uindex = len(ut1utcs).
InTable(rows, mjd) == uindex(rows, mjd) < Len(rows)
get_ut1utc(rows, mjd) == ut1utcs(rows)[uindex(rows, mjd) + 1]

\* self.ut1utc = self.get_ut1utc(self.ut1utc_fn, self.time[0])
GetUt1utc ==
    /\ pc = "start"
    /\ IF InTable(table, time[1])
       THEN /\ ut1utc' = get_ut1utc(table, time[1])
            /\ pc' = "model"
            /\ err' = err
       ELSE /\ pc' = "error"
            /\ err' = "IndexError"
            /\ ut1utc' = ut1utc
    /\ UNCHANGED <<inputs, az, el, converter, out, results, ncalls, call,
                   ret, skymap>>

(***************************************************************************)
(* pointing.apply_pointing_model                                           *)
(***************************************************************************)
\* The keys of the params dictionary, in the order of the source.
ParamNames ==
    {"an", "aw", "an2", "aw2", "an4", "aw4", "npae", "ca", "ia", "ie", "tf",
     "tfs", "ref", "dt", "elt", "ta1", "te1", "sa", "se", "sa2", "se2",
     "sta", "ste", "sta2", "ste2"}

\* Mutant of LengthsAgree: only too few values are refused.
LengthsAgree_atleast(values, names) == Len(values) >= Len(names)

\* The assertion that opens apply_pointing_model.
LengthsAgree(values, names) == Len(values) = Len(names)

\* list.index: the first position holding p.
index(names, p) ==
    CHOOSE i \in 1..Len(names) :
        names[i] = p /\ \A j \in 1..(i - 1) : names[j] # p

\* The dictionary after the loop that copies the supplied values.
FillParams(names, values) ==
    [p \in ParamNames |->
        IF \E i \in 1..Len(names) : names[i] = p
        THEN R(values[index(names, p)])
        ELSE R(0)]

\* Mutant of ScaleDt: += written for *=.
ScaleDt_add(params) == [params EXCEPT !["dt"] = RAdd(@, sec2deg)]

\* params['dt'] *= sec2deg
ScaleDt(params) == [params EXCEPT !["dt"] = RMul(@, sec2deg)]

\* Mutant of azd: the an2 term subtracted without its sign change.
azd_an2sign(params, a, e, l) ==
    LET s1 == RMul(RMul(RNeg(params["an"]), sin(a)), sin(e))
        s2 == RSub(s1, RMul(RMul(params["aw"], cos(a)), sin(e)))
        s3 == RSub(s2, RMul(RMul(params["an2"], sin2(a)), sin(e)))
        s4 == RSub(s3, RMul(RMul(params["aw2"], cos2(a)), sin(e)))
        s5 == RSub(s4, RMul(RMul(RNeg(params["an4"]), sin4(a)), sin(e)))
        s6 == RSub(s5, RMul(RMul(params["aw4"], cos4(a)), sin(e)))
        s7 == RAdd(s6, RMul(params["npae"], sin(e)))
        s8 == RSub(s7, params["ca"])
        s9 == RAdd(s8, RMul(params["ia"], cos(e)))
    IN  RAdd(s9, RMul(params["dt"],
                      RAdd(RNeg(sin(l)),
                           RMul(RMul(cos(a), cos(l)), tan(e)))))

\* azd for one sample, in arcminutes, accumulated as the source does.
azd(params, a, e, l) ==
    LET s1 == RMul(RMul(RNeg(params["an"]), sin(a)), sin(e))
        s2 == RSub(s1, RMul(RMul(params["aw"], cos(a)), sin(e)))
        s3 == RSub(s2, RMul(RMul(RNeg(params["an2"]), sin2(a)), sin(e)))
        s4 == RSub(s3, RMul(RMul(params["aw2"], cos2(a)), sin(e)))
        s5 == RSub(s4, RMul(RMul(RNeg(params["an4"]), sin4(a)), sin(e)))
        s6 == RSub(s5, RMul(RMul(params["aw4"], cos4(a)), sin(e)))
        s7 == RAdd(s6, RMul(params["npae"], sin(e)))
        s8 == RSub(s7, params["ca"])
        s9 == RAdd(s8, RMul(params["ia"], cos(e)))
    IN  RAdd(s9, RMul(params["dt"],
                      RAdd(RNeg(sin(l)),
                           RMul(RMul(cos(a), cos(l)), tan(e)))))

\* Mutant of eld: a thermal term te1 added to the implemented ones.
eld_te1(params, a, e, l, t, t0) ==
    LET s1 == RMul(params["an"], cos(a))
        s2 == RSub(s1, RMul(params["aw"], sin(a)))
        s3 == RSub(s2, RMul(params["an2"], cos2(a)))
        s4 == RSub(s3, RMul(params["aw2"], sin2(a)))
        s5 == RSub(s4, RMul(params["an4"], cos4(a)))
        s6 == RSub(s5, RMul(params["aw4"], sin4(a)))
        s7 == RSub(s6, params["ie"])
        s8 == RAdd(s7, RMul(params["tf"], cos(e)))
        s9 == RAdd(s8, RMul(params["tfs"], sin(e)))
        s10 == RSub(s9, RDiv(params["ref"], tan(e)))
        s11 == RAdd(s10, RMul(RMul(RNeg(params["dt"]), cos(l)), sin(a)))
        s12 == RAdd(s11, RMul(params["elt"], R(t - t0)))
    IN  RAdd(s12, params["te1"])

\* eld for one sample, in arcminutes; t is the sample's time, t0 np.min(time).
eld(params, a, e, l, t, t0) ==
    LET s1 == RMul(params["an"], cos(a))
        s2 == RSub(s1, RMul(params["aw"], sin(a)))
        s3 == RSub(s2, RMul(params["an2"], cos2(a)))
        s4 == RSub(s3, RMul(params["aw2"], sin2(a)))
        s5 == RSub(s4, RMul(params["an4"], cos4(a)))
        s6 == RSub(s5, RMul(params["aw4"], sin4(a)))
        s7 == RSub(s6, params["ie"])
        s8 == RAdd(s7, RMul(params["tf"], cos(e)))
        s9 == RAdd(s8, RMul(params["tfs"], sin(e)))
        s10 == RSub(s9, RDiv(params["ref"], tan(e)))
        s11 == RAdd(s10, RMul(RMul(RNeg(params["dt"]), cos(l)), sin(a)))
    IN  RAdd(s11, RMul(params["elt"], R(t - t0)))

\* np.min
Min(ts) == CHOOSE m \in {ts[i] : i \in 1..Len(ts)} :
               \A i \in 1..Len(ts) : m <= ts[i]

\* The body of apply_pointing_model after the assertion: <<az, el>>.
CorrectedAzEl(azs, els, ts, values, names, l) ==
    LET params == ScaleDt(FillParams(names, values))
        azdr(i) == RDiv(RMul(azd(params, azs[i], els[i], l), arcmin2rad),
                        cos(els[i]))
        eldr(i) == RMul(eld(params, azs[i], els[i], l, ts[i], Min(ts)),
                        arcmin2rad)
    IN  << [i \in 1..Len(azs) |-> RadSub(Enc(azs[i]), azdr(i))],
           [i \in 1..Len(els) |-> RadSub(Enc(els[i]), eldr(i))] >>

ApplyPointingModel ==
    /\ pc = "model"
    /\ IF LengthsAgree(value_params, allowed_params)
       THEN LET r == CorrectedAzEl(az_enc, el_enc, time, value_params,
                                   allowed_params, lat)
            IN  /\ az' = r[1]
                /\ el' = r[2]
                /\ pc' = "convert"
                /\ err' = err
       ELSE /\ pc' = "error"
            /\ err' = "AssertionError"
            /\ UNCHANGED <<az, el>>
    /\ UNCHANGED <<inputs, ut1utc, converter, out, results, ncalls, call,
                   ret, skymap>>

(***************************************************************************)
(* The sets the inputs are drawn from.                                     *)
(***************************************************************************)
\* One encoder sample: azimuth and elevation (elevation 0 is singular).
SampleAngles == {<<"m345", "a435">>, <<"a345", "zero">>}
\* Times are mjd counted from the first day of the UT1-UTC table; a scan's
\* times do not decrease.
TimeSet == {0, 1}
ValueSet == {0, -3}
LatSet == {"m435"}
\* Any name of the catalogue, or one that is not in it.
NameSet == ParamNames \cup {"zz"}
\* The name that fills a list around one freely chosen name.
CommonNames == {"ia"}

SeqsUpTo(S, n) == UNION {[1..k -> S] : k \in 0..n}

NameLists ==
    {s \in SeqsUpTo(NameSet, MaxParams) :
        Cardinality({i \in 1..Len(s) : s[i] \notin CommonNames}) <= 1}

ValueLists == SeqsUpTo(ValueSet, MaxParams + 1)

(***************************************************************************)
(* Azel2Radec.  SLALIB's routines are kept as uninterpreted terms: a       *)
(* result records the routine's arguments, so two results are equal        *)
(* exactly when they come from the same arguments.  The observation        *)
(* parameter block AOPRMS is [obs, eqeqx, dut, lst]: obs stands for the    *)
(* elements 1-12 (site, weather, refraction constants), eqeqx and dut for  *)
(* element 13 (longitude + equation of the equinoxes at the date eqeqx +   *)
(* sidereal UT1-UTC), lst for element 14 (GMST at the date lst + element   *)
(* 13).                                                                    *)
(***************************************************************************)
\* Mutant of sla_aoppat: element 14 is advanced from its previous value.
sla_aoppat_incr(date, aoprms) == [aoprms EXCEPT !.lst = @ + date]

\* sla_aoppat(date, aoprms): element 14 is recomputed for the date.
sla_aoppat(date, aoprms) == [aoprms EXCEPT !.lst = date]

\* sla_aoppa(date, dut, elongm, phim, hm, xp, yp, tdk, pmb, rh, wl, tlr)
sla_aoppa(date, dut, site) ==
    sla_aoppat(date, [obs |-> site, eqeqx |-> date, dut |-> dut, lst |-> date])

\* sla_mappa(eq, date): the mean-to-apparent parameters.
sla_mappa(eq, date) == [eq |-> eq, date |-> date]

\* sla_oapqk(type, ob1, ob2, aoprms): observed to apparent.
sla_oapqk(type, ob1, ob2, aoprms) ==
    [type |-> type, ob1 |-> ob1, ob2 |-> ob2, ao |-> aoprms]
\* sla_ampqk(ra, da, amprms): apparent to mean.
sla_ampqk(app, amprms) == [app |-> app, am |-> amprms]
\* sla_mapqkz(rm, dm, amprms): mean to apparent.
sla_mapqkz(rm, dm, amprms) == [rm |-> rm, dm |-> dm, am |-> amprms]
\* sla_aopqk(rap, dap, aoprms): apparent to observed.
sla_aopqk(app, aoprms) == [app |-> app, ao |-> aoprms]
\* sla_dbear(a1, b1, a2, b2)
sla_dbear(p1, p2) == [bearing |-> <<p1, p2>>]

\* Azel2Radec.updateaoprms (wavelength in micrometres, lapse rate in
\* 1e-4 K/m).
updateaoprms(self, mjd) ==
    [self EXCEPT !.aoprms =
        sla_aoppa(mjd, self.ut1utc,
                  [lon |-> self.lon, lat |-> self.lat, height |-> self.height,
                   xpm |-> 0, ypm |-> 0, temp |-> self.temp,
                   pressure |-> self.pressure, humidity |-> self.humidity,
                   wavelength |-> 1998, lapserate |-> 65])]

\* Azel2Radec.__init__ with its default site: angles in millidegrees,
\* pressure and temperature in hundredths, humidity in tenths.
Azel2Radec(mjd, dut) ==
    updateaoprms([lon |-> 360000 + 67786, lat |-> 0 - 22958, height |-> 5200,
                  pressure |-> 53329, temp |-> 27315, humidity |-> 1,
                  mjd |-> mjd, epequi |-> 2000, ut1utc |-> dut,
                  aoprms |-> <<>>],
                 mjd)

\* np.pi / 2 - el, moved by d * 1e-8.
ZenithDistance(e, d) == [el |-> e, d |-> d]

\* Mutant of azel2radecpa: the block is advanced but the call's result is
\* reduced with the block as it was before the call.
azel2radecpa_stale(self, mjd, a, e) ==
    LET amprms == sla_mappa(self.epequi, mjd)
        aoprms == sla_aoppat(mjd, self.aoprms)
        app1 == sla_oapqk("a", a, ZenithDistance(e, 1), self.aoprms)
        m1 == sla_ampqk(app1, amprms)
        app2 == sla_oapqk("a", a, ZenithDistance(e, 0 - 1), self.aoprms)
        m2 == sla_ampqk(app2, amprms)
    IN  [self |-> [self EXCEPT !.aoprms = aoprms],
         ret |-> << [mid |-> "ra", of |-> <<m1, m2>>],
                    [mid |-> "dec", of |-> <<m1, m2>>],
                    sla_dbear(m1, m2) >>]

\* Azel2Radec.azel2radecpa: the converter after the call and (ra, dec, pa).
azel2radecpa(self, mjd, a, e) ==
    LET amprms == sla_mappa(self.epequi, mjd)
        aoprms == sla_aoppat(mjd, self.aoprms)
        app1 == sla_oapqk("a", a, ZenithDistance(e, 1), aoprms)
        m1 == sla_ampqk(app1, amprms)
        app2 == sla_oapqk("a", a, ZenithDistance(e, 0 - 1), aoprms)
        m2 == sla_ampqk(app2, amprms)
    IN  [self |-> [self EXCEPT !.aoprms = aoprms],
         ret |-> << [mid |-> "ra", of |-> <<m1, m2>>],
                    [mid |-> "dec", of |-> <<m1, m2>>],
                    sla_dbear(m1, m2) >>]

\* Azel2Radec.radec2azel: the converter after the call and (az, el).
radec2azel(self, mjd, r, d) ==
    LET amprms == sla_mappa(self.epequi, mjd)
        aoprms == sla_aoppat(mjd, self.aoprms)
        app == sla_mapqkz(r, d, amprms)
        obs == sla_aopqk(app, aoprms)
    IN  [self |-> [self EXCEPT !.aoprms = aoprms],
         ret |-> << [az |-> obs], [el |-> obs] >>]

(***************************************************************************)
(* pointing.azel2radec and pointing.azel2radecpa                           *)
(***************************************************************************)
\* Mutant of SampleArgs: the encoder angles are converted.
SampleArgs_enc(k) == <<time[k], Enc(az_enc[k]), Enc(el_enc[k])>>

\* The arguments of the k-th call of vconv(self.time, self.az, self.el).
SampleArgs(k) == <<time[k], az[k], el[k]>>

\* converter = Azel2Radec(self.time[0], self.ut1utc)
NewConverter ==
    /\ pc = "convert"
    /\ converter' = Azel2Radec(time[1], ut1utc)
    /\ pc' = "probe"
    /\ UNCHANGED <<err, inputs, az, el, ut1utc, out, results, ncalls, call,
                   ret, skymap>>

\* np.vectorize, given no otypes, first calls the function on the first
\* elements to learn the number and types of its outputs.
ProbeCall ==
    /\ pc = "probe"
    /\ LET args == SampleArgs(1)
           r == azel2radecpa(converter, args[1], args[2], args[3])
       IN  /\ converter' = r.self
           /\ call' = [fn |-> "azel2radecpa", mjd |-> args[1],
                       x |-> args[2], y |-> args[3]]
           /\ ret' = r.ret
    /\ ncalls' = ncalls + 1
    /\ pc' = "loop"
    /\ UNCHANGED <<err, inputs, az, el, ut1utc, out, results, skymap>>

\* ... and then calls it on every element in order.
ConvertSample ==
    /\ pc = "loop"
    /\ Len(out) < Len(time)
    /\ LET k == Len(out) + 1
           args == SampleArgs(k)
           r == azel2radecpa(converter, args[1], args[2], args[3])
       IN  /\ converter' = r.self
           /\ call' = [fn |-> "azel2radecpa", mjd |-> args[1],
                       x |-> args[2], y |-> args[3]]
           /\ ret' = r.ret
           /\ out' = Append(out, r.ret)
    /\ ncalls' = ncalls + 1
    /\ UNCHANGED <<pc, err, inputs, az, el, ut1utc, results, skymap>>

\* self.ra, self.dec, self.pa = self.azel2radecpa(), and the median of pa.
StoreRaDecPa ==
    /\ pc = "loop"
    /\ Len(out) = Len(time)
    /\ ra' = [i \in 1..Len(out) |-> out[i][1]]
    /\ dec' = [i \in 1..Len(out) |-> out[i][2]]
    /\ pa' = [i \in 1..Len(out) |-> out[i][3]]
    /\ meanpa' = [median |-> pa']
    /\ pc' = "done"
    /\ UNCHANGED <<err, inputs, az, el, ut1utc, converter, out, ncalls,
                   call, ret, skymap>>

(***************************************************************************)
(* Conversion calls on a converter, by any caller.                         *)
(***************************************************************************)
CallAngles == {Enc("a345"), Enc("zero")}

CallAzel2Radecpa ==
    /\ pc = "converter"
    /\ ncalls < MaxCalls
    /\ \E mjd \in TimeSet, a \in CallAngles, e \in CallAngles :
         LET r == azel2radecpa(converter, mjd, a, e)
         IN  /\ converter' = r.self
             /\ call' = [fn |-> "azel2radecpa", mjd |-> mjd, x |-> a, y |-> e]
             /\ ret' = r.ret
    /\ ncalls' = ncalls + 1
    /\ UNCHANGED <<pc, err, inputs, az, el, ut1utc, out, results, skymap>>

CallRadec2Azel ==
    /\ pc = "converter"
    /\ ncalls < MaxCalls
    /\ \E mjd \in TimeSet, r0 \in CallAngles, d0 \in CallAngles :
         LET r == radec2azel(converter, mjd, r0, d0)
         IN  /\ converter' = r.self
             /\ call' = [fn |-> "radec2azel", mjd |-> mjd, x |-> r0, y |-> d0]
             /\ ret' = r.ret
    /\ ncalls' = ncalls + 1
    /\ UNCHANGED <<pc, err, inputs, az, el, ut1utc, out, results, skymap>>

(***************************************************************************)
(* Inputs.                                                                 *)
(***************************************************************************)
\* UT1-UTC tables: at least two rows, sorted ascending by mjd.
Ut1utcSet == {277, -123}
Rows == [mjd : 0..MaxMjd, ut1utc : Ut1utcSet]
Tables ==
    {t \in UNION {[1..k -> Rows] : k \in 2..MaxTable} :
        \A i \in 1..(Len(t) - 1) : t[i].mjd <= t[i + 1].mjd}

\* The table of the pipeline runs: it covers the first day only, or both.
EphemTables ==
    { <<[mjd |-> 0, ut1utc |-> 277], [mjd |-> 0, ut1utc |-> -123]>>,
      <<[mjd |-> 0, ut1utc |-> 277], [mjd |-> 1, ut1utc |-> -123]>> }

InitInputs ==
    /\ \E n \in 1..MaxSamples :
         /\ \E sa \in [1..n -> SampleAngles] :
              /\ az_enc = [i \in 1..n |-> sa[i][1]]
              /\ el_enc = [i \in 1..n |-> sa[i][2]]
         /\ time \in {ts \in [1..n -> TimeSet] :
                         \A i \in 1..(n - 1) : ts[i] <= ts[i + 1]}
    /\ allowed_params \in NameLists
    /\ value_params \in ValueLists
    /\ lat \in LatSet

(***************************************************************************)
(* input_sky.py: HealpixFitsMap.  None is 0 for nside and <<>> for an      *)
(* array; a map of resolution nside has 12 * nside^2 pixels.               *)
(***************************************************************************)
\* hp.nside2npix
nside2npix(n) == 12 * n * n
\* hp.npix2nside
npix2nside(npix) == CHOOSE n \in 1..npix : nside2npix(n) = npix

\* The branch of load_healpix_fits_map that reads the file (which exists).
read_all(self) ==
    IF self.do_pol
    THEN [self EXCEPT !.I = file.I, !.Q = file.Q, !.U = file.U,
                      !.nside = npix2nside(Len(file.I))]
    ELSE [self EXCEPT !.I = file.I, !.nside = npix2nside(Len(file.I))]

\* Mutant of MustRead: force is ignored.
MustRead_noforce(self, force) == self.nside = 0

\* if self.nside is None or force
MustRead(self, force) == self.nside = 0 \/ force

Zeros(arr) == [i \in 1..Len(arr) |-> 0]

\* Mutant of set_leakage_to_zero: no_ileak zeroes Q and U as well.
set_leakage_to_zero_all(self) ==
    LET s1 == IF self.no_ileak
              THEN [self EXCEPT !.I = Zeros(@), !.Q = Zeros(@), !.U = Zeros(@)]
              ELSE self
    IN  IF s1.no_quleak
        THEN [s1 EXCEPT !.Q = Zeros(@), !.U = Zeros(@)]
        ELSE s1

\* Mutant of set_leakage_to_zero: only Q is zeroed, U is left.
set_leakage_to_zero_q(self) ==
    LET s1 == IF self.no_ileak THEN [self EXCEPT !.I = Zeros(@)] ELSE self
    IN  IF s1.no_quleak
        THEN [s1 EXCEPT !.Q = Zeros(@)]
        ELSE s1

\* HealpixFitsMap.set_leakage_to_zero (an array that is None is <<>>, which
\* Zeros leaves as it is: the source skips a Q or U that is None).
set_leakage_to_zero(self) ==
    LET s1 == IF self.no_ileak THEN [self EXCEPT !.I = Zeros(@)] ELSE self
    IN  IF s1.no_quleak
        THEN [s1 EXCEPT !.Q = Zeros(@), !.U = Zeros(@)]
        ELSE s1

\* HealpixFitsMap.__init__: the attributes are set, the map is loaded and the
\* leakage is zeroed; a file that cannot be read ends it with an error.
Construct ==
    /\ mpc = "init"
    /\ op' = "construct"
    /\ IF file.exists
       THEN /\ hpmap' = set_leakage_to_zero(read_all(hpmap))
            /\ nreads' = nreads + 1
            /\ mpc' = "ready"
       ELSE /\ mpc' = "error"
            /\ nreads' = nreads + 1
            /\ hpmap' = hpmap
    /\ UNCHANGED <<file, nops, printed, tod>>

\* HealpixFitsMap.load_healpix_fits_map(force) on the constructed object.
LoadHealpixFitsMap ==
    /\ mpc = "ready"
    /\ nops < MaxOps
    /\ \E force \in BOOLEAN :
         /\ op' = IF force THEN "load_force" ELSE "load"
         /\ IF MustRead(hpmap, force)
            THEN /\ nreads' = nreads + 1
                 /\ hpmap' = IF file.exists THEN read_all(hpmap) ELSE hpmap
                 /\ printed' = printed
            ELSE /\ printed' = printed + 1
                 /\ UNCHANGED <<hpmap, nreads>>
    /\ nops' = nops + 1
    /\ UNCHANGED <<file, mpc, tod>>

\* HealpixFitsMap.set_leakage_to_zero() on the constructed object.
SetLeakageToZero ==
    /\ mpc = "ready"
    /\ nops < MaxOps
    /\ op' = "set_leakage_to_zero"
    /\ hpmap' = set_leakage_to_zero(hpmap)
    /\ nops' = nops + 1
    /\ UNCHANGED <<file, mpc, nreads, printed, tod>>

\* The pixels of a map file: all ones, or a ramp 1, 2, 0, 1, 2, 0, ...
Patterns == {"flat", "ramp"}
Pixels(n, pat) ==
    [i \in 1..nside2npix(n) |-> IF pat = "flat" THEN 1 ELSE i % 3]

RECURSIVE Pow2(_)
Pow2(k) == IF k = 0 THEN 1 ELSE 2 * Pow2(k - 1)

MapFiles ==
    {[exists |-> TRUE, I |-> Pixels(Pow2(k), pi), Q |-> Pixels(Pow2(k), pq),
      U |-> Pixels(Pow2(k), pu)] :
        k \in 0..MaxOrder, pi \in Patterns, pq \in Patterns, pu \in Patterns}

NoFile == [exists |-> FALSE, I |-> <<>>, Q |-> <<>>, U |-> <<>>]

\* write_dummy_map: the file is written anew.
WriteDummyMap ==
    /\ mpc = "ready"
    /\ file' \in MapFiles \ {file}
    /\ op' = "write_dummy_map"
    /\ UNCHANGED <<hpmap, mpc, nops, nreads, printed, tod>>

\* remove_test_data: the file is removed.
RemoveTestData ==
    /\ mpc = "ready"
    /\ file.exists
    /\ file' = NoFile
    /\ op' = "remove_test_data"
    /\ UNCHANGED <<hpmap, mpc, nops, nreads, printed, tod>>

(***************************************************************************)
(* The pointing model alone: apply_pointing_model applied to every input.  *)
(***************************************************************************)
\* No sky map object.
NoSkyMap ==
    /\ file = NoFile
    /\ hpmap = <<>>
    /\ mpc = "none"
    /\ op = ""
    /\ nops = 0
    /\ nreads = 0
    /\ printed = 0

\* Nothing computed yet.
Unset ==
    /\ NoSkyMap
    /\ az = <<>>
    /\ el = <<>>
    /\ converter = <<>>
    /\ out = <<>>
    /\ ra = <<>>
    /\ dec = <<>>
    /\ pa = <<>>
    /\ meanpa = <<>>
    /\ ncalls = 0
    /\ call = <<>>
    /\ ret = <<>>

InitModel ==
    /\ InitInputs
    /\ pc = "model"
    /\ err = ""
    /\ Unset
    /\ table = <<[mjd |-> 0, ut1utc |-> 277], [mjd |-> 1, ut1utc |-> -123]>>
    /\ ut1utc = get_ut1utc(table, time[1])

NextModel == ApplyPointingModel

SpecModel == InitModel /\ [][NextModel]_vars

(***************************************************************************)
(* The UT1-UTC lookup alone: get_ut1utc applied to every table and query.  *)
(***************************************************************************)
InitLookup ==
    /\ table \in Tables
    /\ time \in {<<q>> : q \in (0 - 1)..(MaxMjd + 1)}
    /\ pc = "start"
    /\ err = ""
    /\ az_enc = <<"a345">>
    /\ el_enc = <<"a435">>
    /\ value_params = <<>>
    /\ allowed_params = <<>>
    /\ lat = "m345"
    /\ Unset
    /\ ut1utc = 0

NextLookup == GetUt1utc

SpecLookup == InitLookup /\ [][NextLookup]_vars

(***************************************************************************)
(* Constructing a pointing object: pointing.__init__ from its first        *)
(* statement to its last.                                                  *)
(***************************************************************************)
PipeNameSet == {"ia", "elt"}

InitPointing ==
    /\ InitInputs
    /\ allowed_params \in SeqsUpTo(PipeNameSet, MaxParams)
    /\ table \in EphemTables
    /\ pc = "start"
    /\ err = ""
    /\ ut1utc = 0
    /\ Unset

NextPointing ==
    \/ GetUt1utc
    \/ ApplyPointingModel
    \/ NewConverter
    \/ ProbeCall
    \/ ConvertSample
    \/ StoreRaDecPa

SpecPointing == InitPointing /\ [][NextPointing]_vars

(***************************************************************************)
(* A converter and the conversion calls made on it.                        *)
(***************************************************************************)
InitConverter ==
    /\ \E mjd \in TimeSet, dut \in Ut1utcSet :
         /\ converter = Azel2Radec(mjd, dut)
         /\ time = <<mjd>>
         /\ ut1utc = dut
    /\ pc = "converter"
    /\ err = ""
    /\ az_enc = <<"a345">>
    /\ el_enc = <<"a435">>
    /\ value_params = <<>>
    /\ allowed_params = <<>>
    /\ lat = "m345"
    /\ table = <<>>
    /\ NoSkyMap
    /\ az = <<>>
    /\ el = <<>>
    /\ out = <<>>
    /\ ra = <<>>
    /\ dec = <<>>
    /\ pa = <<>>
    /\ meanpa = <<>>
    /\ ncalls = 0
    /\ call = <<>>
    /\ ret = <<>>

NextConverter ==
    \/ CallAzel2Radecpa
    \/ CallRadec2Azel

SpecConverter == InitConverter /\ [][NextConverter]_vars

(***************************************************************************)
(* A sky map: HealpixFitsMap.__init__, then calls of its methods, while    *)
(* the file may be rewritten or removed.                                   *)
(***************************************************************************)
InitSkyMap ==
    /\ file \in MapFiles \cup {NoFile}
    /\ \E do_pol \in BOOLEAN, no_ileak \in BOOLEAN, no_quleak \in BOOLEAN :
         hpmap = [do_pol |-> do_pol, no_ileak |-> no_ileak,
                  no_quleak |-> no_quleak,
                  nside |-> 0, I |-> <<>>, Q |-> <<>>, U |-> <<>>]
    /\ mpc = "init"
    /\ op = ""
    /\ nops = 0
    /\ nreads = 0
    /\ printed = 0
    /\ pc = "none"
    /\ err = ""
    /\ az_enc = <<>>
    /\ el_enc = <<>>
    /\ time = <<>>
    /\ value_params = <<>>
    /\ allowed_params = <<>>
    /\ lat = "zero"
    /\ table = <<>>
    /\ ut1utc = 0
    /\ az = <<>>
    /\ el = <<>>
    /\ converter = <<>>
    /\ out = <<>>
    /\ ra = <<>>
    /\ dec = <<>>
    /\ pa = <<>>
    /\ meanpa = <<>>
    /\ ncalls = 0
    /\ call = <<>>
    /\ ret = <<>>

NextSkyMap ==
    \/ Construct
    \/ LoadHealpixFitsMap
    \/ SetLeakageToZero
    \/ WriteDummyMap
    \/ RemoveTestData

SpecSkyMap == InitSkyMap /\ [][NextSkyMap]_vars

(***************************************************************************)
(* A sky map whose file stays as it is: HealpixFitsMap.__init__, then any  *)
(* sequence of load_healpix_fits_map and set_leakage_to_zero calls.        *)
(***************************************************************************)
NextLeakage ==
    \/ Construct
    \/ LoadHealpixFitsMap
    \/ SetLeakageToZero

SpecLeakage == InitSkyMap /\ [][NextLeakage]_vars

(***************************************************************************)
(* Properties of apply_pointing_model.                                     *)
(***************************************************************************)
\* apply_pointing_model has returned: self.az and self.el are set.
Corrected == az # <<>>

Samples == 1..Len(az_enc)

\* The value supplied for a term: the one at the first position of its
\* name, 0 for a name that is not in the list.
Supplied(name) ==
    IF \E k \in 1..Len(allowed_params) : allowed_params[k] = name
    THEN R(value_params[index(allowed_params, name)])
    ELSE R(0)

RECURSIVE Sum(_)
Sum(terms) ==
    IF terms = <<>> THEN R(0) ELSE RAdd(terms[1], Sum(Tail(terms)))

Times3(x, y, z) == RMul(x, RMul(y, z))

\* dt in degrees.
DtDeg == RMul(Supplied("dt"), Norm(360, 86400))

\* The azimuth terms of sample i.
AzTerms(i) ==
    LET a == az_enc[i]
        e == el_enc[i]
    IN  << RNeg(Times3(Supplied("an"), sin(a), sin(e))),
           RNeg(Times3(Supplied("aw"), cos(a), sin(e))),
           Times3(Supplied("an2"), sin2(a), sin(e)),
           RNeg(Times3(Supplied("aw2"), cos2(a), sin(e))),
           Times3(Supplied("an4"), sin4(a), sin(e)),
           RNeg(Times3(Supplied("aw4"), cos4(a), sin(e))),
           RMul(Supplied("npae"), sin(e)),
           RNeg(Supplied("ca")),
           RMul(Supplied("ia"), cos(e)),
           RMul(DtDeg, RSub(Times3(cos(a), cos(lat), tan(e)), sin(lat))) >>

\* The elevation terms of sample i.
ElTerms(i) ==
    LET a == az_enc[i]
        e == el_enc[i]
    IN  << RMul(Supplied("an"), cos(a)),
           RNeg(RMul(Supplied("aw"), sin(a))),
           RNeg(RMul(Supplied("an2"), cos2(a))),
           RNeg(RMul(Supplied("aw2"), sin2(a))),
           RNeg(RMul(Supplied("an4"), cos4(a))),
           RNeg(RMul(Supplied("aw4"), sin4(a))),
           RNeg(Supplied("ie")),
           RMul(Supplied("tf"), cos(e)),
           RMul(Supplied("tfs"), sin(e)),
           RNeg(RDiv(Supplied("ref"), tan(e))),
           RNeg(Times3(DtDeg, cos(lat), sin(a))),
           RMul(Supplied("elt"), R(time[i] - Min(time))) >>

AllZero ==
    \/ \A k \in 1..Len(value_params) : value_params[k] = 0
    \/ \A k \in 1..Len(allowed_params) : allowed_params[k] \notin ParamNames

\* C3: when every supplied value is zero, or no recognized name is
\* supplied, the corrected az and el equal the encoder az and el at every
\* sample whose elevation is not singular.
C3_ZeroParamsIdentity ==
    (Corrected /\ AllZero) =>
        \A i \in Samples :
            el_enc[i] # "zero" =>
                /\ az[i] = Enc(az_enc[i])
                /\ el[i] = Enc(el_enc[i])

\* A refraction coefficient of zero, at a regular and at a singular
\* elevation: only the latter is changed (0/tan(0) is not a number).
C3_Witness ==
    /\ Corrected
    /\ allowed_params = <<"ref">>
    /\ value_params = <<0>>
    /\ Len(el) = 2
    /\ el_enc[1] # "zero"
    /\ el_enc[2] = "zero"
    /\ el[1] = Enc(el_enc[1])
    /\ el[2] # Enc(el_enc[2])

\* The names of the catalogue that no correction term uses.
Unimplemented ==
    {"ta1", "te1", "sa", "se", "sa2", "se2", "sta", "ste", "sta2", "ste2"}

\* The value lists that differ from value_params only at the positions of
\* unimplemented names.
Variants ==
    {v \in [1..Len(value_params) -> ValueSet \cup {7}] :
        \A k \in 1..Len(value_params) :
            (k > Len(allowed_params) \/ allowed_params[k] \notin Unimplemented)
                => v[k] = value_params[k]}

\* C4: a list holding unimplemented names is accepted (only a length
\* mismatch is refused), and the corrected az and el are those of every run
\* that differs only in the values of the unimplemented names.
C4_UnimplementedNoEffect ==
    /\ err = "AssertionError" => ~LengthsAgree(value_params, allowed_params)
    /\ Corrected =>
         \A v \in Variants :
             CorrectedAzEl(az_enc, el_enc, time, v, allowed_params, lat)
                 = <<az, el>>

C4_Witness ==
    /\ Corrected
    /\ allowed_params = <<"te1">>
    /\ value_params = <<-3>>
    /\ Cardinality(Variants) > 1

(***************************************************************************)
(* Properties of get_ut1utc.                                               *)
(***************************************************************************)
\* Row i is the first row of the table whose mjd is >= q.
FirstAtLeast(i, q) ==
    /\ table[i].mjd >= q
    /\ \A j \in 1..(i - 1) : table[j].mjd < q

Covered(q) == \E i \in 1..Len(table) : table[i].mjd >= q

C1_MismatchIsFatal ==
    Len(value_params) # Len(allowed_params) =>
        /\ pc \in {"start", "model", "error"}
        /\ pc = "error" => err \in {"IndexError", "AssertionError"}
        /\ az = <<>> /\ el = <<>>
        /\ ra = <<>> /\ dec = <<>> /\ pa = <<>>

\* More values than names: the assertion has fired.
C1_Witness ==
    /\ Len(value_params) > Len(allowed_params)
    /\ pc = "error"
    /\ err = "AssertionError"
    /\ az = <<>>
    /\ ra = <<>>

\* (ra, dec, pa) reduced from (a, e) with the blocks ao and am.
ForwardWith(ao, am, a, e) ==
    LET m(d) == sla_ampqk(sla_oapqk("a", a, ZenithDistance(e, d), ao), am)
    IN  << [mid |-> "ra", of |-> <<m(1), m(0 - 1)>>],
           [mid |-> "dec", of |-> <<m(1), m(0 - 1)>>],
           sla_dbear(m(1), m(0 - 1)) >>

\* (az, el) reduced from (r, d) with the blocks ao and am.
InverseWith(ao, am, r, d) ==
    LET obs == sla_aopqk(sla_mapqkz(r, d, am), ao)
    IN  << [az |-> obs], [el |-> obs] >>

ConverterFields ==
    {"lon", "lat", "height", "pressure", "temp", "humidity", "mjd",
     "epequi", "ut1utc", "aoprms"}

\* C6: the observation parameter block is built once, at construction, for
\* the construction mjd and UT1-UTC offset; every conversion call replaces
\* it by that block advanced to the call's mjd and reduces with the
\* advanced block and a mean-place block built for the call's mjd, which is
\* not kept on the converter.
C6_BlockAdvancedInPlace ==
    /\ converter.aoprms.eqeqx = time[1]
    /\ converter.aoprms.lst = time[1]
    /\ converter.aoprms.dut = ut1utc
    /\ DOMAIN converter = ConverterFields
    /\ [][ncalls' # ncalls =>
            LET ao == sla_aoppat(call'.mjd, converter.aoprms)
                am == sla_mappa(2000, call'.mjd)
            IN  /\ converter' = [converter EXCEPT !.aoprms = ao]
                /\ ret' = IF call'.fn = "azel2radecpa"
                          THEN ForwardWith(ao, am, call'.x, call'.y)
                          ELSE InverseWith(ao, am, call'.x, call'.y)]_vars

\* A second call, at an mjd other than that of the construction and of the
\* first call.
C6_Witness ==
    /\ ncalls = 2
    /\ call.fn = "radec2azel"
    /\ call.mjd # converter.mjd
    /\ converter.aoprms.lst = call.mjd
    /\ converter.aoprms.eqeqx = converter.mjd

\* C7: the converter exists only once the pointing model has been applied,
\* and at the end ra, dec and pa have the length of the input and, at
\* every index i, are the forward conversion of (time[i], az[i], el[i]) with
\* az and el the corrected angles, by a converter built from time[0] and
\* the UT1-UTC value looked up at time[0].
C7_CorrectThenConvert ==
    /\ converter # <<>> => Corrected
    /\ ra # <<>> => pc = "done"
    /\ pc = "done" =>
         /\ <<az, el>> = CorrectedAzEl(az_enc, el_enc, time, value_params,
                                       allowed_params, lat)
         /\ Len(ra) = Len(time) /\ Len(dec) = Len(time) /\ Len(pa) = Len(time)
         /\ \A i \in 1..Len(time) :
              <<ra[i], dec[i], pa[i]>> =
                  azel2radecpa(Azel2Radec(time[1], get_ut1utc(table, time[1])),
                               time[i], az[i], el[i]).ret

\* Two samples on different days, with an azimuth encoder zero that moves
\* the azimuth away from the encoder's.
C7_Witness ==
    /\ pc = "done"
    /\ Len(ra) = 2
    /\ time[1] # time[2]
    /\ allowed_params = <<"ia">>
    /\ az[2] # Enc(az_enc[2])
    /\ el_enc[2] # "zero"

(***************************************************************************)
(* Properties of HealpixFitsMap.                                           *)
(***************************************************************************)
\* An array, not None, all of whose pixels are 0.
ZeroArray(arr) == arr # <<>> /\ \A i \in 1..Len(arr) : arr[i] = 0

\* The object as its constructor returned it.
Constructed == mpc = "ready" /\ op = "construct"

\* C8: the constructor of a map with no_ileak set leaves an I array of the
\* file's length that is all zeros, whatever the file holds; with no_quleak
\* not set, Q and U are as read: the file's Q and U with do_pol, None
\* without.
C8_NoILeakZeroesI ==
    [][(mpc = "init" /\ mpc' = "ready") =>
          /\ hpmap'.no_ileak =>
                 ZeroArray(hpmap'.I) /\ Len(hpmap'.I) = Len(file.I)
          /\ ~hpmap'.no_quleak =>
                 /\ hpmap'.Q = IF hpmap'.do_pol THEN file.Q ELSE <<>>
                 /\ hpmap'.U = IF hpmap'.do_pol THEN file.U ELSE <<>>]_vars

\* A file without a zero in I, and with a Q that is not U.
C8_Witness ==
    /\ Constructed
    /\ hpmap.no_ileak /\ ~hpmap.no_quleak /\ hpmap.do_pol
    /\ \A i \in 1..Len(file.I) : file.I[i] # 0
    /\ ZeroArray(hpmap.I)
    /\ hpmap.Q = file.Q /\ hpmap.U = file.U /\ file.Q # file.U
    /\ ~ZeroArray(hpmap.Q)

\* C9 as claimed: the constructor of a map with no_quleak set leaves Q and U
\* arrays that are all zeros, whatever the other flags.
C9_NoQULeakAlwaysZeroArrays ==
    (Constructed /\ hpmap.no_quleak) =>
        ZeroArray(hpmap.Q) /\ ZeroArray(hpmap.U)

\* C9: the constructor of a map with no_quleak set leaves, with do_pol, Q
\* and U arrays of the map's length that are all zeros, and without do_pol
\* a Q and a U that are None, whatever no_ileak.
C9_NoQULeakZeroesLoadedQU ==
    (Constructed /\ hpmap.no_quleak) =>
        IF hpmap.do_pol
        THEN /\ ZeroArray(hpmap.Q) /\ Len(hpmap.Q) = nside2npix(hpmap.nside)
             /\ ZeroArray(hpmap.U) /\ Len(hpmap.U) = nside2npix(hpmap.nside)
        ELSE hpmap.Q = <<>> /\ hpmap.U = <<>>

C9_Witness ==
    /\ Constructed
    /\ hpmap.no_quleak /\ hpmap.do_pol /\ ~hpmap.no_ileak
    /\ ZeroArray(hpmap.Q) /\ ZeroArray(hpmap.U)
    /\ hpmap.I = file.I
    /\ \A i \in 1..Len(file.Q) : file.Q[i] # 0 /\ file.U[i] # 0

\* C10: on a loaded map, load_healpix_fits_map without force does not call
\* read_map and leaves nside, I, Q and U as they are, printing that the data
\* is in memory; with force it calls read_map and, the file being there,
\* takes I from the file and nside from the length of I, printing nothing.
C10_LoadOnlyWhenForced ==
    [][(nops' # nops /\ hpmap.nside # 0) =>
          /\ op' = "load" =>
                 /\ nreads' = nreads
                 /\ hpmap' = hpmap
                 /\ printed' = printed + 1
          /\ op' = "load_force" =>
                 /\ nreads' = nreads + 1
                 /\ printed' = printed
                 /\ file.exists =>
                        /\ hpmap'.I = file.I
                        /\ nside2npix(hpmap'.nside) = Len(hpmap'.I)]_vars

\* A forced load of a map of resolution 2, then a load without force.
C10_Witness ==
    /\ mpc = "ready"
    /\ op = "load"
    /\ nops = 2
    /\ nreads = 2
    /\ printed = 1
    /\ hpmap.I = file.I
    /\ hpmap.nside = 2

\* C11 as claimed, for the arrays the map has: once constructed, a map with
\* no_ileak set has an I that is all zeros, and a map with no_quleak set
\* that reads polarisation has a Q and a U that are all zeros, after every
\* sequence of load_healpix_fits_map and set_leakage_to_zero calls.
C11_ZerosPreserved ==
    mpc = "ready" =>
        /\ hpmap.no_ileak => ZeroArray(hpmap.I)
        /\ (hpmap.no_quleak /\ hpmap.do_pol) =>
               ZeroArray(hpmap.Q) /\ ZeroArray(hpmap.U)

\* A forced load on a map with both flags set has put the file's I, Q and U,
\* none of them with a zero, back in memory.
C11_Witness ==
    /\ mpc = "ready"
    /\ op = "load_force"
    /\ nops = 1
    /\ hpmap.no_ileak /\ hpmap.no_quleak /\ hpmap.do_pol
    /\ hpmap.I = file.I /\ hpmap.Q = file.Q /\ hpmap.U = file.U
    /\ \A i \in 1..Len(file.I) :
           file.I[i] # 0 /\ file.Q[i] # 0 /\ file.U[i] # 0

(***************************************************************************)
(* Properties of the converter across its calls.                           *)
(***************************************************************************)
\* A converter constructed as the present one was, on which no call has
\* been made.
FreshConverter == Azel2Radec(time[1], ut1utc)

\* What a call returns on the converter self.
ResultOn(self, c) ==
    IF c.fn = "azel2radecpa"
    THEN azel2radecpa(self, c.mjd, c.x, c.y).ret
    ELSE radec2azel(self, c.mjd, c.x, c.y).ret

\* The calls that can be made on a converter.
Calls ==
    [fn : {"azel2radecpa", "radec2azel"}, mjd : TimeSet, x : CallAngles,
     y : CallAngles]

\* C12: whatever calls have been made on a converter, at whatever epochs,
\* the call just made returned, and every call made next returns, what the
\* same call returns on a converter constructed with the same constants on
\* which no call has been made; so two call sequences that end with the
\* same call return the same values for it.
C12_ResultIndependentOfHistory ==
    pc = "converter" =>
        /\ \A c \in Calls : ResultOn(converter, c) = ResultOn(FreshConverter, c)
        /\ ncalls > 0 => ret = ResultOn(FreshConverter, call)

\* Two calls have been made, the last at an epoch that is not the
\* construction epoch: the converter's block is no longer the constructed
\* one, and a call at the construction epoch would move it again.
C12_Witness ==
    /\ pc = "converter"
    /\ ncalls = 2
    /\ call.mjd # time[1]
    /\ converter # FreshConverter
    /\ converter.aoprms.lst # FreshConverter.aoprms.lst
    /\ ret = ResultOn(FreshConverter, call)
    /\ \E c \in Calls :
          /\ c.mjd = time[1]
          /\ azel2radecpa(converter, c.mjd, c.x, c.y).self # converter

====
